---- MODULE Spec2Model ----
(***************************************************************************)
(* A model of victoria-metrics-writer (src/src/lib.rs): MetricsWriter      *)
(* buffers one JSON line per add() call and send() posts the buffer to the *)
(* import endpoint of a Victoria Metrics server.                           *)
(*                                                                         *)
(* Bytes are modelled as one-character strings and byte strings (the       *)
(* buffer, a request body, a metric name, a label key or value) as         *)
(* sequences of them, so that the CR LF terminators, the JSON punctuation  *)
(* and the escaping of string contents are all visible to the properties.  *)
(***************************************************************************)
EXTENDS Integers, Sequences, FiniteSets, TLC

(***************************************************************************)
(* Bounds of the model.                                                    *)
(***************************************************************************)
\* add() calls over one run of the writer
MaxAdds == 2
\* send() calls over one run of the writer
MaxSends == 2
\* instants range over the seconds -MaxSecs .. MaxSecs around the Unix epoch
MaxSecs == 2
\* pairs a label map is built from
MaxLabels == 3
\* values, and timestamps, of one add() call
MaxLen == 3

(***************************************************************************)
(* Byte strings.                                                           *)
(***************************************************************************)
RECURSIVE Concat(_)
\* The concatenation of a sequence of byte strings.
Concat(ss) == IF ss = <<>> THEN <<>> ELSE Head(ss) \o Concat(Tail(ss))

\* The byte value of the characters label keys are made of in this model;
\* Ord for &str compares byte by byte.
ByteOf(c) ==
  CASE c = "\n" -> 10
    [] c = "\r" -> 13
    [] c = "\"" -> 34
    [] c = "Z" -> 90
    [] c = "\\" -> 92
    [] c = "_" -> 95
    [] c = "a" -> 97
    [] c = "b" -> 98
    [] c = "e" -> 101
    [] c = "j" -> 106
    [] c = "m" -> 109
    [] c = "n" -> 110
    [] c = "o" -> 111

RECURSIVE StrLess(_, _)
\* a < b for two &str: lexicographic on bytes, a proper prefix is smaller.
StrLess(a, b) ==
  IF b = <<>> THEN FALSE
  ELSE IF a = <<>> THEN TRUE
  ELSE IF Head(a) # Head(b) THEN ByteOf(Head(a)) < ByteOf(Head(b))
  ELSE StrLess(Tail(a), Tail(b))

(***************************************************************************)
(* BTreeMap<&str, &str>: the entries in ascending key order, keys unique.  *)
(***************************************************************************)
RECURSIVE BTreeInsert(_, _, _)
\* map.insert(k, v): replaces the value of an equal key, otherwise places
\* the entry at its position in key order.
BTreeInsert(map, k, v) ==
  IF map = <<>> THEN << [k |-> k, v |-> v] >>
  ELSE IF Head(map).k = k THEN << [k |-> k, v |-> v] >> \o Tail(map)
  ELSE IF StrLess(k, Head(map).k) THEN << [k |-> k, v |-> v] >> \o map
  ELSE << Head(map) >> \o BTreeInsert(Tail(map), k, v)

\* A map that keeps the pairs as they were inserted (a Vec of pairs).
BTreeMapFrom_Unsorted(pairs) == pairs

RECURSIVE BTreeMapFrom(_)
\* BTreeMap::from(array of pairs): the pairs inserted in array order.
BTreeMapFrom(pairs) ==
  IF pairs = <<>> THEN <<>>
  ELSE LET n == Len(pairs)
       IN BTreeInsert(BTreeMapFrom(SubSeq(pairs, 1, n - 1)), pairs[n].k, pairs[n].v)

(***************************************************************************)
(* chrono::DateTime<Utc>: whole seconds since the Unix epoch (floored) and *)
(* the nanoseconds into that second.                                       *)
(***************************************************************************)
\* Utc.timestamp_millis_opt(m).unwrap()
timestamp_millis_opt(m) == [secs |-> m \div 1000, nanos |-> (m % 1000) * 1000000]

\* timestamp_millis() that rounds to the nearest millisecond.
timestamp_millis_Rounded(dt) == dt.secs * 1000 + ((dt.nanos + 500000) \div 1000000)

\* DateTime::timestamp_millis()
timestamp_millis(dt) == dt.secs * 1000 + (dt.nanos \div 1000000)

(***************************************************************************)
(* serde_json's compact writer.                                            *)
(***************************************************************************)
DigitChar == << "0", "1", "2", "3", "4", "5", "6", "7", "8", "9" >>

RECURSIVE Digits(_)
Digits(n) ==
  IF n < 10 THEN << DigitChar[n + 1] >>
  ELSE Digits(n \div 10) \o << DigitChar[(n % 10) + 1] >>

\* An i64 in decimal.
itoa(n) == IF n < 0 THEN << "-" >> \o Digits(-n) ELSE Digits(n)

\* The escape of one character of a string.
EscapeChar(c) ==
  CASE c = "\"" -> << "\\", "\"" >>
    [] c = "\\" -> << "\\", "\\" >>
    [] c = "\n" -> << "\\", "n" >>
    [] c = "\r" -> << "\\", "r" >>
    [] OTHER -> << c >>

\* A &str as a JSON string.
format_escaped_str(s) ==
  << "\"" >> \o Concat([i \in 1..Len(s) |-> EscapeChar(s[i])]) \o << "\"" >>

\* A value of the caller's type T is one of
\*   [t |-> "int", n |-> i]  an integer,
\*   [t |-> "nan"]           a non-finite float, written as null,
\*   [t |-> "err"]           a value whose Serialize impl returns an error.
ValueOk(v) == v.t # "err"

ValueJSON(v) == IF v.t = "int" THEN itoa(v.n) ELSE << "n", "u", "l", "l" >>

RECURSIVE SeqBody(_)
\* The elements of an array, comma separated.
SeqBody(items) ==
  IF items = <<>> THEN <<>>
  ELSE IF Len(items) = 1 THEN Head(items)
  ELSE Head(items) \o << "," >> \o SeqBody(Tail(items))

\* &[i64] as a JSON array.
I64SeqJSON(ns) == << "[" >> \o SeqBody([i \in 1..Len(ns) |-> itoa(ns[i])]) \o << "]" >>

\* The index of the first value of vs that fails to serialize, 0 if none.
FirstErr(vs) ==
  IF \A i \in 1..Len(vs) : ValueOk(vs[i]) THEN 0
  ELSE CHOOSE i \in 1..Len(vs) :
         /\ ~ValueOk(vs[i])
         /\ \A j \in 1..(i - 1) : ValueOk(vs[j])

\* &[T] as a JSON array; when an element fails, what was written before the
\* failure: the opening bracket, the elements before it and their commas.
ValuesJSON(vs) ==
  LET e == FirstErr(vs)
  IN IF e = 0
     THEN << "[" >> \o SeqBody([i \in 1..Len(vs) |-> ValueJSON(vs[i])]) \o << "]" >>
     ELSE << "[" >> \o Concat([i \in 1..(e - 1) |-> ValueJSON(vs[i]) \o << "," >>])

KeyMetric == << "\"", "m", "e", "t", "r", "i", "c", "\"" >>
KeyValues == << "\"", "v", "a", "l", "u", "e", "s", "\"" >>
KeyTimestamps ==
  << "\"", "t", "i", "m", "e", "s", "t", "a", "m", "p", "s", "\"" >>
NameKey == << "_", "_", "n", "a", "m", "e", "_", "_" >>

\* MetricMeta { name, labels }: a map that starts with the renamed field
\* __name__ and continues with the flattened entries of labels in the map's
\* iteration order.
MetricMetaJSON(name, labels) ==
  << "{" >> \o format_escaped_str(NameKey) \o << ":" >> \o format_escaped_str(name)
    \o Concat([i \in 1..Len(labels) |->
                 << "," >> \o format_escaped_str(labels[i].k) \o << ":" >>
                   \o format_escaped_str(labels[i].v)])
    \o << "}" >>

\* Metric { meta, values, timestamps } in field order; ok is FALSE and out is
\* cut short when a value fails to serialize.
MetricJSON(name, labels, values, ts) ==
  LET head == << "{" >> \o KeyMetric \o << ":" >> \o MetricMetaJSON(name, labels)
                \o << "," >> \o KeyValues \o << ":" >> \o ValuesJSON(values)
  IN IF FirstErr(values) = 0
     THEN [ok |-> TRUE,
           out |-> head \o << "," >> \o KeyTimestamps \o << ":" >> \o I64SeqJSON(ts)
                     \o << "}" >>]
     ELSE [ok |-> FALSE, out |-> head]

CRLF == << "\r", "\n" >>

(***************************************************************************)
(* The inputs of the model.                                                *)
(***************************************************************************)
\* An argument list of add(): the metric name, the pairs the caller builds
\* the label map from (in the order it inserts them), the values and the
\* instants.
Arg(name, ins, values, timestamps) ==
  [name |-> name, ins |-> ins, values |-> values, timestamps |-> timestamps]

Pair(k, v) == [k |-> k, v |-> v]
IntV(n) == [t |-> "int", n |-> n]
NanV == [t |-> "nan"]
ErrV == [t |-> "err"]
Instant(secs, nanos) == [secs |-> secs, nanos |-> nanos]

Up == << "u", "p" >>
Job == << "j", "o", "b" >>

\* The argument lists add() is called with where the calls interleave with
\* send(): the shape of the repository's test (two labels inserted out of
\* key order, a value with a quote, two values, two instants, one of them
\* with a fraction of a millisecond), a name made of CR LF with no labels,
\* values or instants, and one whose second value fails to serialize.
AddArgs ==
  { Arg(Up, << Pair(Job, << "n" >>), Pair(<< "a" >>, << "\"" >>) >>,
        << IntV(0), IntV(-12) >>,
        << timestamp_millis_opt(10), Instant(1, 5999999) >>),
    Arg(CRLF, <<>>, <<>>, <<>>),
    Arg(Up, <<>>, << IntV(1), ErrV >>, << timestamp_millis_opt(0) >>) }

NoArg == Arg(<<>>, <<>>, <<>>, <<>>)

\* The keys labels are made of where one record is looked at closely: one
\* that sorts before __name__, __name__ itself and two that sort after it.
LabelKeys == { << "Z" >>, NameKey, << "a" >>, Job }

\* The arrays of pairs a label map is built from: up to MaxLabels pairs in
\* any order, keys repeated or not, the i-th pair with the value i.
PairArrays ==
  UNION { [1..n -> LabelKeys] : n \in 0..MaxLabels }

LabelArgs ==
  { Arg(Up, [i \in 1..Len(ks) |-> Pair(ks[i], itoa(i))], << IntV(0) >>,
        << timestamp_millis_opt(0) >>) : ks \in PairArrays }

\* The nanoseconds into the second of the instants looked at: on and around
\* the millisecond boundaries.
SubsecNanos ==
  { 0, 1, 999999, 1000000, 1000001, 1999999, 499999999, 500000000,
    999000000, 999999999 }

\* Each instant comes with the last instant of the same millisecond.
TimeArgs ==
  { Arg(Up, <<>>, << IntV(0) >>,
        << Instant(secs, nanos),
           Instant(secs, (nanos \div 1000000) * 1000000 + 999999) >>) :
      secs \in (-MaxSecs)..MaxSecs, nanos \in SubsecNanos }

\* The i-th value and the i-th instant of the arrays of different lengths.
ValueNo(i) == IF i = 2 THEN NanV ELSE IntV(5 - 3 * i)
InstantNo(i) == timestamp_millis_opt(1500 * (i % 2) - 700 * i)

LengthArgs ==
  { Arg(Up, <<>>, [i \in 1..n |-> ValueNo(i)], [i \in 1..m |-> InstantNo(i)]) :
      n \in 0..MaxLen, m \in 0..MaxLen }

\* Names and label values made of the characters JSON gives a meaning to.
OddStrings ==
  { << "\"", ":" >>, << "\\" >>, << "\\", "\"" >>, << "}", "{" >>, << "]", "," >>,
    CRLF }

StringArgs ==
  { Arg(str, << Pair(<< "a" >>, str) >>, << IntV(0) >>, << timestamp_millis_opt(0) >>) :
      str \in OddStrings }

\* The argument lists of the add() calls whose record is looked at closely.
RecordArgs == LabelArgs \cup TimeArgs \cup LengthArgs \cup StringArgs

\* The hosts a writer is constructed with; the empty one gives a URL that
\* does not parse.
Hosts == { "localhost:8428", "" }

\* The status codes a server answers with where the calls interleave.
Statuses == { 200, 500 }

\* Every status code a response can carry (http::StatusCode: 100 to 999).
StatusCodes == 100..999

(***************************************************************************)
(* The writer.                                                             *)
(***************************************************************************)
VARIABLES
  host,    \* the argument new() was called with
  url,     \* MetricsWriter.url
  writer,  \* MetricsWriter.writer: None, or Some(the bytes buffered)
  pc,      \* where the caller is: "idle" between calls, "created" holding a
           \* send() future not polled yet, "awaiting" inside send() with the
           \* request in flight, "panicked" after add() panicked
  posts,   \* the requests handed to the HTTP client, in order: url and body
  hist     \* the calls made and what happened in them, in order

vars == << host, url, writer, pc, posts, hist >>

None == [some |-> FALSE, buf |-> <<>>]
Some(bytes) == [some |-> TRUE, buf |-> bytes]

\* An entry of hist: op says what happened, arg is the argument list of an
\* add(), status a status code, np the number of requests handed to the
\* client so far.  op is
\*   "add"       add() returned,
\*   "panic"     add() panicked,
\*   "send"      send() was called: its future exists and has not run,
\*   "poll"      the future ran for the first time, up to its await or its end,
\*   "response"  the server answered the request with status,
\*   "failure"   the request ended without a response,
\*   "Ok", "RequestError", "InvalidResponseStatusCode"
\*               send() returned this,
\*   "drop"      the future was dropped before send() returned.
Ev(op, arg, status, np) == [op |-> op, arg |-> arg, status |-> status, np |-> np]

Count(h, op) == Cardinality({ i \in 1..Len(h) : h[i].op = op })

\* The URL without its scheme.
ImportUrl_NoScheme(h) == h \o "/api/v1/import"

\* format!("http://{}/api/v1/import", host)
ImportUrl(h) == "http://" \o h \o "/api/v1/import"

\* Whether reqwest can build a request for the URL: a URL with an empty host
\* does not parse, and the client fails such a request without sending it.
UrlParses(u) == u # "http:///api/v1/import"

\* MetricsWriter::new(host)
new(h) == [url |-> ImportUrl(h), writer |-> None]

\* A fresh buffer on every call (insert instead of get_or_insert_with).
get_or_insert_with_Fresh(w) == Some(<<>>)

\* self.writer.get_or_insert_with(|| vec![].writer())
get_or_insert_with(w) == IF w.some THEN w ELSE Some(<<>>)

\* add() that pairs values with timestamps and stops at the shorter array.
add_Zip(w, name, labels, values, timestamps) ==
  LET n == IF Len(values) < Len(timestamps) THEN Len(values) ELSE Len(timestamps)
      ts == [i \in 1..n |-> timestamp_millis(timestamps[i])]
      m == MetricJSON(name, labels, SubSeq(values, 1, n), ts)
      b == get_or_insert_with(w).buf \o m.out
  IN IF m.ok
     THEN [writer |-> Some(b \o CRLF), panicked |-> FALSE]
     ELSE [writer |-> Some(b), panicked |-> TRUE]

\* add() that skips a record equal to the one the buffer ends with.
add_Dedup(w, name, labels, values, timestamps) ==
  LET ts == [i \in 1..Len(timestamps) |-> timestamp_millis(timestamps[i])]
      m == MetricJSON(name, labels, values, ts)
      old == get_or_insert_with(w).buf
      line == m.out \o CRLF
      dup == /\ Len(old) >= Len(line)
             /\ SubSeq(old, Len(old) - Len(line) + 1, Len(old)) = line
  IN IF m.ok
     THEN [writer |-> Some(IF dup THEN old ELSE old \o line), panicked |-> FALSE]
     ELSE [writer |-> Some(old \o m.out), panicked |-> TRUE]

\* add() with a terminator of LF alone.
add_LF(w, name, labels, values, timestamps) ==
  LET ts == [i \in 1..Len(timestamps) |-> timestamp_millis(timestamps[i])]
      m == MetricJSON(name, labels, values, ts)
      b == get_or_insert_with(w).buf \o m.out
  IN IF m.ok
     THEN [writer |-> Some(b \o << "\n" >>), panicked |-> FALSE]
     ELSE [writer |-> Some(b), panicked |-> TRUE]

\* The body of add(): the writer field after the call, and whether the call
\* panicked (the unwrap of a failed serialization) instead of returning.
add(w, name, labels, values, timestamps) ==
  LET ts == [i \in 1..Len(timestamps) |-> timestamp_millis(timestamps[i])]
      m == MetricJSON(name, labels, values, ts)
      b == get_or_insert_with(w).buf \o m.out
  IN IF m.ok
     THEN [writer |-> Some(b \o CRLF), panicked |-> FALSE]
     ELSE [writer |-> Some(b), panicked |-> TRUE]

\* take() that reads an absent buffer as an empty one
\* (self.writer.take().unwrap_or_default()).
take_OrDefault(w) == [left |-> None, taken |-> Some(w.buf)]

\* take() that leaves the buffer in the field (a clone instead of a take).
take_Clone(w) == [left |-> w, taken |-> w]

\* self.writer.take(): what is left in the field, and what was taken.
take(w) == [left |-> None, taken |-> w]

\* post() with the final line terminator trimmed off the body.
post_Trimmed(u, w) ==
  [url |-> u, body |-> SubSeq(w.buf, 1, Len(w.buf) - Len(CRLF))]

\* A request that goes to a fixed address, whatever the writer was built with.
post_Localhost(u, w) == [url |-> "http://localhost:8428/api/v1/import", body |-> w.buf]

\* self.client.post(&self.url).body(writer.into_inner())
post(u, w) == [url |-> u, body |-> w.buf]

\* is_success() that lets 300 through.
is_success_UpTo300(status) == 200 <= status /\ status <= 300

\* StatusCode::is_success()
is_success(status) == 200 <= status /\ status < 300

\* The outcome of the awaited request: a response with a status code, or an
\* error.
Response(status) == [t |-> "response", status |-> status]
Failure == [t |-> "failure", status |-> 0]

\* send() that ignores a request that failed (if let Ok(response) = ...).
send_return_IgnoreFailure(outcome) ==
  IF outcome.t = "response" /\ ~is_success(outcome.status)
  THEN [op |-> "InvalidResponseStatusCode", status |-> outcome.status]
  ELSE [op |-> "Ok", status |-> 0]

\* What send() returns for an outcome of the request: the ? returns the
\* error converted by From, a response is judged by its status.
send_return(outcome) ==
  IF outcome.t = "failure" THEN [op |-> "RequestError", status |-> 0]
  ELSE IF ~is_success(outcome.status)
  THEN [op |-> "InvalidResponseStatusCode", status |-> outcome.status]
  ELSE [op |-> "Ok", status |-> 0]

\* The entries of hist for an outcome of the request and the return of
\* send() that follows it.
Returned(outcome, np) ==
  << Ev(outcome.t, NoArg, outcome.status, np),
     Ev(send_return(outcome).op, NoArg, send_return(outcome).status, np) >>

\* A cancelled send() that puts the body back in front of the buffer.
drop_in_flight_Requeue(w, body) == Some(body \o w.buf)

\* The future is dropped while it awaits the response: the request and the
\* body it owns go with it, the writer field is left as take() left it.
drop_in_flight(w, body) == w

Init ==
  /\ host \in Hosts
  /\ url = new(host).url
  /\ writer = new(host).writer
  /\ pc = "idle"
  /\ posts = <<>>
  /\ hist = <<>>

\* writer.add(name, &BTreeMap::from(ins), values, timestamps)
Add(a) ==
  /\ pc = "idle"
  /\ Count(hist, "add") + Count(hist, "panic") < MaxAdds
  /\ LET r == add(writer, a.name, BTreeMapFrom(a.ins), a.values, a.timestamps)
     IN /\ writer' = r.writer
        /\ pc' = IF r.panicked THEN "panicked" ELSE "idle"
        /\ hist' = Append(hist, Ev(IF r.panicked THEN "panic" ELSE "add", a, 0,
                                   Len(posts)))
  /\ UNCHANGED << host, url, posts >>

\* writer.send(): the future is created and nothing of its body has run.
SendCall ==
  /\ pc = "idle"
  /\ Count(hist, "send") < MaxSends
  /\ pc' = "created"
  /\ hist' = Append(hist, Ev("send", NoArg, 0, Len(posts)))
  /\ UNCHANGED << host, url, writer, posts >>

\* The first poll of the future.  With no buffer it returns Ok at once.  With
\* one it takes the buffer and hands the request to the client, which fails
\* it at once when the URL does not parse and suspends the future otherwise.
SendPoll ==
  /\ pc = "created"
  /\ LET t == take(writer)
     IN /\ writer' = t.left
        /\ posts' = IF t.taken.some THEN Append(posts, post(url, t.taken))
                    ELSE posts
        /\ pc' = IF t.taken.some /\ UrlParses(url) THEN "awaiting" ELSE "idle"
        /\ hist' = hist \o << Ev("poll", NoArg, 0, Len(posts')) >>
                     \o ( IF ~t.taken.some
                          THEN << Ev("Ok", NoArg, 0, Len(posts')) >>
                          ELSE IF ~UrlParses(url)
                          THEN Returned(Failure, Len(posts'))
                          ELSE <<>> )
  /\ UNCHANGED << host, url >>

\* The response arrives with a status code and send() returns.
SendResponse(status) ==
  /\ pc = "awaiting"
  /\ pc' = "idle"
  /\ hist' = hist \o Returned(Response(status), Len(posts))
  /\ UNCHANGED << host, url, writer, posts >>

\* The request ends without a response and send() returns.
SendRequestError ==
  /\ pc = "awaiting"
  /\ pc' = "idle"
  /\ hist' = hist \o Returned(Failure, Len(posts))
  /\ UNCHANGED << host, url, writer, posts >>

\* The caller drops the future while the request is in flight.
SendCancel ==
  /\ pc = "awaiting"
  /\ pc' = "idle"
  /\ writer' = drop_in_flight(writer, posts[Len(posts)].body)
  /\ hist' = Append(hist, Ev("drop", NoArg, 0, Len(posts)))
  /\ UNCHANGED << host, url, posts >>

\* The caller drops the future without ever polling it.
SendDrop ==
  /\ pc = "created"
  /\ pc' = "idle"
  /\ hist' = Append(hist, Ev("drop", NoArg, 0, Len(posts)))
  /\ UNCHANGED << host, url, writer, posts >>

Next ==
  \/ \E a \in AddArgs : Add(a)
  \/ SendCall
  \/ SendPoll
  \/ \E status \in Statuses : SendResponse(status)
  \/ SendRequestError
  \/ SendCancel
  \/ SendDrop

\* The writer under every interleaving of add() and send().
Spec == Init /\ [][Next]_vars

\* The first add() of a fresh writer, over the argument lists whose record
\* is looked at closely.
NextRecord == \E a \in RecordArgs : hist = <<>> /\ Add(a)

SpecRecord == Init /\ [][NextRecord]_vars

\* One add() and the send() calls after it, over every status code.
NextStatus ==
  \/ \E a \in AddArgs : hist = <<>> /\ Add(a)
  \/ SendCall
  \/ SendPoll
  \/ \E status \in StatusCodes : SendResponse(status)

SpecStatus == Init /\ [][NextStatus]_vars

(***************************************************************************)
(* Reading a payload and the history.                                      *)
(***************************************************************************)
\* The positions of the CR LF pairs of a byte string.
CRLFAt(buf) ==
  { i \in 1..(Len(buf) - 1) : buf[i] = "\r" /\ buf[i + 1] = "\n" }

\* The position of the k-th CR LF pair, 0 when there are fewer (and for k = 0).
TermAt(buf, k) ==
  IF k >= 1 /\ k <= Cardinality(CRLFAt(buf))
  THEN CHOOSE i \in CRLFAt(buf) : Cardinality({ j \in CRLFAt(buf) : j < i }) = k - 1
  ELSE 0

\* Where the bytes after the k-th CR LF pair start.
AfterTerm(buf, k) == IF k = 0 THEN 1 ELSE TermAt(buf, k) + 2

\* The byte string cut at its CR LF pairs: what stands before each pair.
LinesOf(buf) ==
  [k \in 1..Cardinality(CRLFAt(buf)) |->
     SubSeq(buf, AfterTerm(buf, k - 1), TermAt(buf, k) - 1)]

\* What follows the last CR LF pair.
Trailing(buf) ==
  SubSeq(buf, AfterTerm(buf, Cardinality(CRLFAt(buf))), Len(buf))

\* The k-th line of a byte string, or a marker when it has fewer lines.
LineAt(buf, k) ==
  IF k >= 1 /\ k <= Cardinality(CRLFAt(buf)) THEN LinesOf(buf)[k]
  ELSE << "no such line" >>

\* The record add() is to append for an argument list.
RecordOf(a) ==
  MetricJSON(a.name, BTreeMapFrom(a.ins), a.values,
             [i \in 1..Len(a.timestamps) |-> timestamp_millis(a.timestamps[i])]).out

\* The positions in history h of the entries with operation op.
At(h, op) == { i \in 1..Len(h) : h[i].op = op }

\* The last poll before position i, 0 when there is none.
PollBefore(h, i) ==
  IF \E j \in At(h, "poll") : j < i
  THEN CHOOSE j \in At(h, "poll") :
         j < i /\ \A l \in At(h, "poll") : l < i => l <= j
  ELSE 0

\* The argument lists of the add() calls that returned between positions lo
\* and hi of h (both excluded), in call order.
AddsBetween(h, lo, hi) ==
  LET sel == SelectSeq([i \in 1..Len(h) |-> [i |-> i, e |-> h[i]]],
                       LAMBDA x : x.e.op = "add" /\ lo < x.i /\ x.i < hi)
  IN [k \in 1..Len(sel) |-> sel[k].e.arg]

\* The add() calls that returned since construction or since the last
\* send() started to run.
AddsSince(h) == AddsBetween(h, PollBefore(h, Len(h) + 1), Len(h) + 1)

\* The add() calls that returned before the send() polled at position i and
\* after the send() polled before it.
AddsBefore(h, i) == AddsBetween(h, PollBefore(h, i), i)

\* The number of requests handed to the client before entry i of h.
NpBefore(h, i) == IF i <= 1 THEN 0 ELSE h[i - 1].np

\* The operation of entry i of h, "" past its end.
OpAt(h, i) == IF i >= 1 /\ i <= Len(h) THEN h[i].op ELSE ""

\* The request with number n, or a marker when there is none.
PostAt(n) ==
  IF n >= 1 /\ n <= Len(posts) THEN posts[n]
  ELSE [url |-> "no such request", body |-> << "no such request" >>]

\* The payload made of the records of the argument lists as, each followed
\* by CR LF.
PayloadOf(as) == Concat([k \in 1..Len(as) |-> RecordOf(as[k]) \o CRLF])

\* send() returned one of its three results at entry i of h.
IsReturn(h, i) == OpAt(h, i) \in { "Ok", "RequestError", "InvalidResponseStatusCode" }

\* send() returned one of its two errors at entry i of h.
IsError(h, i) == OpAt(h, i) \in { "RequestError", "InvalidResponseStatusCode" }

(***************************************************************************)
(* C1.  After N >= 1 add() calls that returned since construction or since *)
(* the last send() started, the buffer is exactly N lines: cut at its CR   *)
(* LF pairs it gives N non-empty pieces with no CR and no LF inside, the   *)
(* k-th piece is the record of the k-th call, and nothing follows the last *)
(* CR LF.                                                                  *)
(***************************************************************************)
C1_BufferIsNLines ==
  LET as == AddsSince(hist)
      n == Len(as)
      lines == LinesOf(writer.buf)
  IN (pc # "panicked" /\ n >= 1) =>
       /\ writer.some
       /\ Len(lines) = n
       /\ Trailing(writer.buf) = <<>>
       /\ \A k \in 1..n :
            /\ lines[k] = RecordOf(as[k])
            /\ lines[k] # <<>>
            /\ \A j \in 1..Len(lines[k]) : lines[k][j] \notin { "\r", "\n" }

\* Two add() calls returned after an earlier send() ran, the first with a
\* name made of CR LF.
C1_Witness ==
  /\ pc = "idle"
  /\ Count(hist, "poll") >= 1
  /\ Len(AddsSince(hist)) = 2
  /\ AddsSince(hist)[1].name = CRLF
  /\ AddsSince(hist)[2].name = Up

(***************************************************************************)
(* C2.  A send() that runs when no add() returned since construction or    *)
(* since the previous send() ran hands no request to the client and        *)
(* returns Ok at once, whatever the previous send() returned; and no       *)
(* request has an empty body.                                              *)
(***************************************************************************)
C2_EmptySendIsNoop ==
  /\ \A i \in At(hist, "poll") :
       AddsBefore(hist, i) = <<>> =>
         /\ hist[i].np = NpBefore(hist, i)
         /\ OpAt(hist, i + 1) = "Ok"
         /\ hist[i + 1].np = NpBefore(hist, i)
  /\ \A n \in 1..Len(posts) : posts[n].body # <<>>

\* A send() on a non-empty buffer returned an error and the send() after it,
\* with no add() in between, has returned.
C2_Witness ==
  \E i \in At(hist, "poll") :
    /\ AddsBefore(hist, i) = <<>>
    /\ IsError(hist, i - 2)
    /\ OpAt(hist, i - 1) = "send"
    /\ Len(posts) = 1

(***************************************************************************)
(* C3.  A send() that runs on a non-empty buffer hands exactly one request *)
(* to the client: it goes to http://{host}/api/v1/import and its body is   *)
(* the records of the add() calls since the previous send() ran, in call   *)
(* order, each followed by CR LF, and nothing else.  No request is made at *)
(* any other moment.                                                       *)
(***************************************************************************)
C3_OnePostWithTheBuffer ==
  /\ \A i \in At(hist, "poll") :
       AddsBefore(hist, i) # <<>> =>
         /\ hist[i].np = NpBefore(hist, i) + 1
         /\ PostAt(hist[i].np).url = "http://" \o host \o "/api/v1/import"
         /\ PostAt(hist[i].np).body = PayloadOf(AddsBefore(hist, i))
  /\ \A i \in 1..Len(hist) :
       hist[i].op # "poll" => hist[i].np = NpBefore(hist, i)
  /\ Len(posts) = NpBefore(hist, Len(hist) + 1)

\* The second send() is in flight with a payload of two records, the only
\* request so far.
C3_Witness ==
  /\ Len(posts) = 1
  /\ Cardinality(CRLFAt(posts[1].body)) = 2
  /\ pc = "awaiting"
  /\ Count(hist, "send") = 2

(***************************************************************************)
(* C4.  When a send() that ran on a non-empty buffer has returned, be it   *)
(* Ok, RequestError or InvalidResponseStatusCode, the buffer is absent;    *)
(* and a send() that runs right after it hands no request to the client.   *)
(***************************************************************************)
C4_BufferGoneAfterSend ==
  /\ ( /\ IsReturn(hist, Len(hist))
       /\ AddsBefore(hist, PollBefore(hist, Len(hist))) # <<>> )
       => writer = None
  /\ \A i \in At(hist, "poll") :
       ( /\ IsReturn(hist, i - 2)
         /\ OpAt(hist, i - 1) = "send"
         /\ AddsBefore(hist, PollBefore(hist, i - 2)) # <<>> )
         => hist[i].np = NpBefore(hist, i)

\* A send() got status 500 for a payload of one record and the send() right
\* after it has run.
C4_Witness ==
  \E i \in At(hist, "poll") :
    /\ OpAt(hist, i - 2) = "InvalidResponseStatusCode"
    /\ hist[i - 2].status = 500
    /\ OpAt(hist, i - 1) = "send"
    /\ Len(AddsBefore(hist, PollBefore(hist, i - 2))) = 1

(***************************************************************************)
(* C5.  When the server answers a send(), send() returns Ok if and only if *)
(* the status code is one of 200..299, and for every other status code it  *)
(* returns InvalidResponseStatusCode carrying that very code.              *)
(***************************************************************************)
C5_OkIffStatus2xx ==
  \A i \in At(hist, "response") :
    /\ IsReturn(hist, i + 1)
    /\ (OpAt(hist, i + 1) = "Ok") <=> (hist[i].status \div 100 = 2)
    /\ OpAt(hist, i + 1) # "Ok" =>
         /\ OpAt(hist, i + 1) = "InvalidResponseStatusCode"
         /\ hist[i + 1].status = hist[i].status

\* The server answered 300 and send() returned the error with 300 in it.
C5_Witness ==
  \E i \in At(hist, "response") :
    /\ hist[i].status = 300
    /\ OpAt(hist, i + 1) = "InvalidResponseStatusCode"
    /\ hist[i + 1].status = 300

(***************************************************************************)
(* C6.  When the request of a send() on a non-empty buffer ends without a  *)
(* response, send() returns RequestError: not Ok and not                   *)
(* InvalidResponseStatusCode.                                              *)
(***************************************************************************)
C6_FailureIsRequestError ==
  \A i \in At(hist, "failure") : OpAt(hist, i + 1) = "RequestError"

\* A request to a well-formed URL failed in flight, with a payload of two
\* records.
C6_Witness ==
  \E i \in At(hist, "failure") :
    /\ host # ""
    /\ OpAt(hist, i - 1) = "poll"
    /\ Len(AddsBefore(hist, i - 1)) = 2
    /\ pc = "idle"

(***************************************************************************)
(* C7.  After a send() on a non-empty buffer returned an error, the add()  *)
(* calls made since and the send() after them give one more request, and   *)
(* its body cut at its CR LF pairs is exactly the records added after the  *)
(* failed send(): no line of the failed payload is in it.                  *)
(***************************************************************************)
C7_UsableAfterFailedSend ==
  \A i \in At(hist, "poll") :
    LET p == PollBefore(hist, i)
        as == AddsBefore(hist, i)
        body == PostAt(hist[i].np).body
    IN ( /\ p > 0
         /\ AddsBefore(hist, p) # <<>>
         /\ \E j \in (p + 1)..(i - 1) : IsError(hist, j)
         /\ as # <<>> )
       => /\ hist[i].np = NpBefore(hist, i) + 1
          /\ LinesOf(body) = [k \in 1..Len(as) |-> RecordOf(as[k])]
          /\ Trailing(body) = <<>>

\* The first send() got status 500 from a well-formed host, an add() of the
\* same arguments followed and the second send() has made its request.
C7_Witness ==
  \E i \in At(hist, "poll") :
    /\ PollBefore(hist, i) > 0
    /\ OpAt(hist, PollBefore(hist, i) + 2) = "InvalidResponseStatusCode"
    /\ AddsBefore(hist, i) = AddsBefore(hist, PollBefore(hist, i))
    /\ Len(AddsBefore(hist, i)) = 1
    /\ Len(posts) = 2

\* The poll that took the line of the add() at entry i, 0 if none has yet.
PollAfter(h, i) ==
  IF \E j \in At(h, "poll") : j > i
  THEN CHOOSE j \in At(h, "poll") :
         j > i /\ \A l \in At(h, "poll") : l > i => l >= j
  ELSE 0

\* The line the add() at entry i of hist appended, read back from where it
\* is now.
AppendedLine(i) ==
  LET q == PollAfter(hist, i)
      k == Len(AddsBetween(hist, PollBefore(hist, i), i)) + 1
  IN LineAt(IF q = 0 THEN writer.buf ELSE PostAt(hist[q].np).body, k)

SameArgs(a, b) ==
  /\ a.name = b.name
  /\ BTreeMapFrom(a.ins) = BTreeMapFrom(b.ins)
  /\ a.values = b.values
  /\ a.timestamps = b.timestamps

(***************************************************************************)
(* C9.  The line an add() call appends is decided by its arguments alone:  *)
(* any two add() calls with the same name, the same label map, the same    *)
(* values and the same instants, wherever they stand among the calls,      *)
(* appended the same bytes, and each call has a line of its own, in the    *)
(* buffer or in the request that took it.                                  *)
(***************************************************************************)
C9_LineDependsOnArgsOnly ==
  \A i \in At(hist, "add") :
    /\ AppendedLine(i) # << "no such line" >>
    /\ \A j \in At(hist, "add") :
         SameArgs(hist[i].arg, hist[j].arg) => AppendedLine(i) = AppendedLine(j)

\* The same arguments were added once before a send() that failed and once
\* after it, and the second line is still in the buffer.
C9_Witness ==
  \E i, j \in At(hist, "add") :
    /\ i < j
    /\ hist[i].arg = hist[j].arg
    /\ hist[i].arg.name = Up
    /\ \E l \in (i + 1)..(j - 1) : IsError(hist, l)
    /\ PollAfter(hist, j) = 0

(***************************************************************************)
(* Reading a record: a scan of its JSON text that tells strings from       *)
(* punctuation.                                                            *)
(***************************************************************************)
\* The members of a set of positions in ascending order.
Ascending(S) ==
  [k \in 1..Cardinality(S) |->
     CHOOSE x \in S : Cardinality({ y \in S : y < x }) = k - 1]

\* The number of backslashes that stand right before position i of s.
BackslashesBefore(s, i) ==
  LET run == { n \in 0..(i - 1) : \A j \in (i - n)..(i - 1) : s[j] = "\\" }
  IN CHOOSE n \in run : \A m \in run : m <= n

\* The positions of the quotes of s that open or close a string: those not
\* escaped by a backslash.
QuotesOf(s) ==
  { i \in 1..Len(s) : s[i] = "\"" /\ BackslashesBefore(s, i) % 2 = 0 }

\* Whether position i of s is outside every string.
Outside(s, i) == Cardinality({ q \in QuotesOf(s) : q <= i }) % 2 = 0

\* The braces open at position i of s.
DepthAt(s, i) ==
  Cardinality({ j \in 1..i : s[j] = "{" /\ Outside(s, j) })
    - Cardinality({ j \in 1..i : s[j] = "}" /\ Outside(s, j) })

\* The keys of the JSON text s in text order, each with the depth of the
\* object it is a key of and the position at where its value starts.  A key
\* is a string followed by a colon.
KeysOf(s) ==
  LET quotes == QuotesOf(s)
      closing == { q \in quotes :
                     /\ Cardinality({ r \in quotes : r < q }) % 2 = 1
                     /\ q < Len(s)
                     /\ s[q + 1] = ":" }
      ends == Ascending(closing)
      OpenOf(q) == CHOOSE r \in quotes :
                     r < q /\ \A t \in quotes : t < q => t <= r
  IN [k \in 1..Len(ends) |->
        [depth |-> DepthAt(s, ends[k]),
         key |-> SubSeq(s, OpenOf(ends[k]) + 1, ends[k] - 1),
         at |-> ends[k] + 2]]

\* The keys at one depth, in text order.
KeysAtDepth(ks, d) ==
  LET sel == SelectSeq(ks, LAMBDA x : x.depth = d)
  IN [k \in 1..Len(sel) |-> sel[k].key]

\* The elements of the array that starts at position at of s, as texts: what
\* stands between the brackets, cut at the commas.  A marker when no array
\* starts there.
ItemsAt(s, at) ==
  IF at < 1 \/ at > Len(s) \/ s[at] # "[" \/ ~(\E j \in at..Len(s) : s[j] = "]")
  THEN << << "no array" >> >>
  ELSE LET close == CHOOSE j \in at..Len(s) :
                      s[j] = "]" /\ \A l \in at..(j - 1) : s[l] # "]"
           cuts == { j \in (at + 1)..(close - 1) : s[j] = "," }
           n == Cardinality(cuts)
           CutNo(k) == IF k = 0 THEN at
                       ELSE IF k = n + 1 THEN close
                       ELSE CHOOSE j \in cuts :
                              Cardinality({ l \in cuts : l < j }) = k - 1
       IN IF close = at + 1 THEN <<>>
          ELSE [k \in 1..(n + 1) |-> SubSeq(s, CutNo(k - 1) + 1, CutNo(k) - 1)]

\* The elements of the array under the top-level key of the record s.
ItemsUnder(s, key) ==
  LET sel == SelectSeq(KeysOf(s), LAMBDA x : x.depth = 1 /\ x.key = key)
  IN IF Len(sel) = 1 THEN ItemsAt(s, sel[1].at) ELSE << << "no array" >> >>

IsDigit(c) == \E d \in 1..10 : DigitChar[d] = c

\* Whether cs is the decimal text of an integer.
IsIntText(cs) ==
  LET ds == IF cs # <<>> /\ cs[1] = "-" THEN Tail(cs) ELSE cs
  IN ds # <<>> /\ \A i \in 1..Len(ds) : IsDigit(ds[i])

RECURSIVE ParseNat(_)
ParseNat(ds) ==
  IF ds = <<>> THEN 0
  ELSE ParseNat(SubSeq(ds, 1, Len(ds) - 1)) * 10
         + (CHOOSE d \in 0..9 : DigitChar[d + 1] = ds[Len(ds)])

\* The integer a decimal text stands for.
ParseInt(cs) == IF cs[1] = "-" THEN -ParseNat(Tail(cs)) ELSE ParseNat(cs)

Unquoted(key) == SubSeq(key, 2, Len(key) - 1)

\* The first add() of the writer has returned: its argument list and the
\* line it appended.
FirstAdded == Len(hist) = 1 /\ hist[1].op = "add"
FirstArg == hist[1].arg
FirstLine == LineAt(writer.buf, 1)

(***************************************************************************)
(* C8.  The record add() appends is one JSON object whose top-level keys   *)
(* are metric, values, timestamps in this order.  The keys inside metric   *)
(* are __name__ first and then the keys of the label map in strictly       *)
(* ascending byte order, each key that was inserted once, whatever the     *)
(* order of insertion.  The values array and the timestamps array have     *)
(* their elements in the order of the arguments.                           *)
(***************************************************************************)
C8_KeyOrder ==
  FirstAdded =>
    LET line == FirstLine
        ks == KeysOf(line)
        inner == KeysAtDepth(ks, 2)
        vals == ItemsUnder(line, Unquoted(KeyValues))
        tss == ItemsUnder(line, Unquoted(KeyTimestamps))
    IN /\ Head(line) = "{" /\ line[Len(line)] = "}"
       /\ KeysAtDepth(ks, 1)
            = << Unquoted(KeyMetric), Unquoted(KeyValues), Unquoted(KeyTimestamps) >>
       /\ \A k \in 1..Len(ks) : ks[k].depth \in { 1, 2 }
       /\ Len(inner) >= 1
       /\ inner[1] = NameKey
       /\ \A k \in 2..(Len(inner) - 1) : StrLess(inner[k], inner[k + 1])
       /\ { inner[k] : k \in 2..Len(inner) }
            = { FirstArg.ins[k].k : k \in 1..Len(FirstArg.ins) }
       /\ vals = [k \in 1..Len(FirstArg.values) |-> ValueJSON(FirstArg.values[k])]
       /\ Len(tss) = Len(FirstArg.timestamps)
       /\ \A k \in 1..Len(tss) :
            /\ IsIntText(tss[k])
            /\ ParseInt(tss[k]) = timestamp_millis(FirstArg.timestamps[k])

\* A record whose labels were inserted as job, a, Z: in descending key order.
C8_Witness ==
  /\ FirstAdded
  /\ Len(FirstArg.ins) = 3
  /\ FirstArg.ins[1].k = Job
  /\ FirstArg.ins[2].k = << "a" >>
  /\ FirstArg.ins[3].k = << "Z" >>
  /\ KeysAtDepth(KeysOf(FirstLine), 2) = << NameKey, << "Z" >>, << "a" >>, Job >>

(***************************************************************************)
(* C10.  Each element of the timestamps array is the instant's number of   *)
(* milliseconds since the Unix epoch: an instant built from the            *)
(* millisecond value m is written as m, before and after the epoch; two    *)
(* instants of the same millisecond are written as the same integer; and   *)
(* the instant built back from the integer is the original instant with    *)
(* the nanoseconds below the millisecond cleared.                          *)
(***************************************************************************)
C10_TimestampMillis ==
  FirstAdded =>
    LET tss == ItemsUnder(FirstLine, Unquoted(KeyTimestamps))
        in == FirstArg.timestamps
    IN /\ Len(tss) = Len(in)
       /\ \A k \in 1..Len(in) :
            /\ IsIntText(tss[k])
            /\ timestamp_millis_opt(ParseInt(tss[k]))
                 = Instant(in[k].secs, in[k].nanos - (in[k].nanos % 1000000))
            /\ \A m \in (-1000 * MaxSecs)..(1000 * MaxSecs + 999) :
                 in[k] = timestamp_millis_opt(m) => ParseInt(tss[k]) = m
       /\ \A k, l \in 1..Len(in) :
            ( /\ in[k].secs = in[l].secs
              /\ in[k].nanos \div 1000000 = in[l].nanos \div 1000000 )
              => tss[k] = tss[l]

\* One millisecond before the epoch and one nanosecond before the epoch are
\* both written as -1.
C10_Witness ==
  /\ FirstAdded
  /\ FirstArg.timestamps = << Instant(-1, 999000000), Instant(-1, 999999999) >>
  /\ ItemsUnder(FirstLine, Unquoted(KeyTimestamps)) = << << "-", "1" >>, << "-", "1" >> >>

(***************************************************************************)
(* C11.  For values of length N and timestamps of length M, equal or not,  *)
(* the values array of the appended record has exactly N elements and its  *)
(* timestamps array exactly M, each element the one of the argument at the *)
(* same index: nothing is cut to the shorter length.                       *)
(***************************************************************************)
C11_NoTruncation ==
  FirstAdded =>
    LET vals == ItemsUnder(FirstLine, Unquoted(KeyValues))
        tss == ItemsUnder(FirstLine, Unquoted(KeyTimestamps))
    IN /\ Len(vals) = Len(FirstArg.values)
       /\ Len(tss) = Len(FirstArg.timestamps)
       /\ \A k \in 1..Len(FirstArg.values) :
            /\ vals[k] # <<>>
            /\ FirstArg.values[k].t = "nan" <=> vals[k] = << "n", "u", "l", "l" >>
            /\ FirstArg.values[k].t = "int" =>
                 IsIntText(vals[k]) /\ ParseInt(vals[k]) = FirstArg.values[k].n
       /\ \A k \in 1..Len(FirstArg.timestamps) :
            /\ IsIntText(tss[k])
            /\ timestamp_millis_opt(ParseInt(tss[k])).secs = FirstArg.timestamps[k].secs

\* One value and three timestamps.
C11_Witness ==
  /\ FirstAdded
  /\ Len(FirstArg.values) = 1
  /\ Len(FirstArg.timestamps) = 3
  /\ Len(ItemsUnder(FirstLine, Unquoted(KeyValues))) = Len(FirstArg.values)
  /\ Len(ItemsUnder(FirstLine, Unquoted(KeyTimestamps))) = Len(FirstArg.timestamps)

C13_EachRecordInOneRequest ==
  /\ Len(posts) <= Count(hist, "send")
  /\ \A n \in 1..Len(posts) :
       LET made == { i \in At(hist, "poll") :
                       hist[i].np = n /\ NpBefore(hist, i) = n - 1 }
       IN /\ Cardinality(made) = 1
          /\ \A i \in made :
               /\ Len(LinesOf(posts[n].body)) = Len(AddsBefore(hist, i))
               /\ Trailing(posts[n].body) = <<>>
  /\ \A i \in At(hist, "add") :
       LET q == PollAfter(hist, i)
           k == Len(AddsBetween(hist, PollBefore(hist, i), i)) + 1
       IN IF q = 0
          THEN writer.some /\ LineAt(writer.buf, k) = RecordOf(hist[i].arg)
          ELSE /\ hist[q].np = NpBefore(hist, q) + 1
               /\ LineAt(PostAt(hist[q].np).body, k) = RecordOf(hist[i].arg)

\* Two requests of one record each, the first one cancelled in flight.
C13_Witness ==
  /\ Len(posts) = 2
  /\ Count(hist, "drop") = 1
  /\ Count(hist, "add") = 2
  /\ Cardinality(CRLFAt(posts[1].body)) = 1
  /\ Cardinality(CRLFAt(posts[2].body)) = 1

(***************************************************************************)
(* C14.  When the future of a send() on a non-empty buffer is dropped      *)
(* while the request is in flight, the buffer is absent: the payload is    *)
(* not put back.  A send() right after it makes no request, and after      *)
(* add() calls the buffer, and the request of the next send(), hold the    *)
(* records added after the cancellation and no others.                     *)
(***************************************************************************)
C14_CancelledPayloadIsLost ==
  \A i \in At(hist, "drop") :
    OpAt(hist, i - 1) = "poll" =>
      LET q == PollAfter(hist, i)
          since == AddsBetween(hist, i, IF q = 0 THEN Len(hist) + 1 ELSE q)
          now == IF q = 0 THEN writer.buf ELSE PostAt(hist[q].np).body
      IN /\ AddsBefore(hist, i - 1) # <<>>
         /\ (q = 0 /\ \A j \in (i + 1)..Len(hist) : hist[j].op \notin { "add", "panic" })
              => writer = None
         /\ (q # 0 /\ since = <<>>) => hist[q].np = NpBefore(hist, q)
         /\ (since # <<>> /\ pc # "panicked") =>
              /\ LinesOf(now) = [k \in 1..Len(since) |-> RecordOf(since[k])]
              /\ Trailing(now) = <<>>

\* A send() with a payload of two records was cancelled in flight and the
\* send() after it returned Ok without a request.
C14_Witness ==
  \E i \in At(hist, "drop") :
    /\ OpAt(hist, i - 1) = "poll"
    /\ Len(AddsBefore(hist, i - 1)) = 2
    /\ OpAt(hist, Len(hist)) = "Ok"
    /\ Len(hist) = i + 3
    /\ Len(posts) = 1

(***************************************************************************)
(* C15.  The step in which a send() starts to run on a non-empty buffer    *)
(* leaves the buffer absent and hands the client a request whose body is   *)
(* the whole buffer of before the step.  In every step taken while the     *)
(* request is in flight the buffer is absent before and after and no       *)
(* request is made, and no step ever changes a request already made: what  *)
(* is added later is in no payload in flight.                              *)
(***************************************************************************)
C15_TakeIsOneStep ==
  [][ /\ ( /\ pc = "created"
           /\ writer.some
           /\ Len(hist') > Len(hist)
           /\ hist'[Len(hist) + 1].op = "poll" )
         => /\ writer' = None
            /\ posts' = Append(posts, [url |-> url, body |-> writer.buf])
      /\ pc = "awaiting" => (writer = None /\ writer' = None /\ posts' = posts)
      /\ \A n \in 1..Len(posts) : Len(posts') >= n /\ posts'[n] = posts[n]
    ]_vars

\* The second request is in flight, one record in each request.
C15_Witness ==
  /\ pc = "awaiting"
  /\ writer = None
  /\ Len(posts) = 2
  /\ posts[2].body # <<>>
  /\ Count(hist, "add") = 2

(***************************************************************************)
(* C16.  No error is fatal: no add() aborts, whatever its arguments, a     *)
(* value whose serialization fails included; every add() appends one       *)
(* record and CRLF, so the buffer is whole lines with nothing after the    *)
(* last CRLF, one line for each add() since the last send() started; and   *)
(* a send() that fails returns its error.                                  *)
(***************************************************************************)
C16_NoErrorIsFatal ==
  /\ pc # "panicked"
  /\ At(hist, "panic") = {}
  /\ writer.some =>
       /\ Trailing(writer.buf) = <<>>
       /\ Len(LinesOf(writer.buf)) = Len(AddsSince(hist))
  /\ \A i \in 1..Len(hist) : IsError(hist, i) => IsReturn(hist, i)

(***************************************************************************)
(* C17.  In every state the buffer is present exactly when an add() has    *)
(* completed since construction or since the last send() started to run;   *)
(* a present buffer has at least the two bytes of a CRLF and ends with     *)
(* CRLF; every request body is non-empty and is whole lines.               *)
(***************************************************************************)
C17_BufferPresentIffAdded ==
  /\ writer.some <=> AddsSince(hist) # <<>>
  /\ writer.some =>
       /\ Len(writer.buf) >= Len(CRLF)
       /\ SubSeq(writer.buf, Len(writer.buf) - Len(CRLF) + 1, Len(writer.buf)) = CRLF
  /\ \A n \in 1..Len(posts) :
       /\ posts[n].body # <<>>
       /\ LinesOf(posts[n].body) # <<>>
       /\ Trailing(posts[n].body) = <<>>

\* The string that stands at position at of the text s, quotes included; a
\* marker when no string starts there.
StringAt(s, at) ==
  LET closes == { q \in QuotesOf(s) : q > at }
  IN IF at < 1 \/ at > Len(s) \/ s[at] # "\"" \/ closes = {}
     THEN << "no string" >>
     ELSE SubSeq(s, at, CHOOSE q \in closes : \A r \in closes : q <= r)

(***************************************************************************)
(* C18.  Whatever the label map, one with the key __name__ included, the   *)
(* metric object of the appended record has no key twice, and the value    *)
(* under its key __name__ is the name argument.                            *)
(***************************************************************************)
C18_EachKeyOnce ==
  FirstAdded =>
    LET line == FirstLine
        inner == SelectSeq(KeysOf(line), LAMBDA x : x.depth = 2)
    IN /\ \A k, l \in 1..Len(inner) : inner[k].key = inner[l].key => k = l
       /\ \E k \in 1..Len(inner) : inner[k].key = NameKey
       /\ \A k \in 1..Len(inner) :
            inner[k].key = NameKey
              => StringAt(line, inner[k].at) = format_escaped_str(FirstArg.name)

(***************************************************************************)
(* C19.  No step changes the target URL or the host it was built from, and *)
(* every request made so far went to the URL of the constructor.  A step   *)
(* of add() makes no request and leaves the buffer present with the bytes  *)
(* of before the step as a proper prefix.                                  *)
(***************************************************************************)
C19_AddOnlyAppends ==
  [][ /\ url' = url
      /\ host' = host
      /\ \A n \in 1..Len(posts') : posts'[n].url = ImportUrl(host)
      /\ ( /\ Len(hist') > Len(hist)
           /\ hist'[Len(hist) + 1].op \in { "add", "panic" } )
         => /\ posts' = posts
            /\ writer'.some
            /\ Len(writer'.buf) > Len(writer.buf)
            /\ SubSeq(writer'.buf, 1, Len(writer.buf)) = writer.buf
    ]_vars

\* The second add() appended to the line of the first, and a send() made one
\* request with both lines to the URL of a writer built without a host.
C19_Witness ==
  /\ host = ""
  /\ Count(hist, "add") = 2
  /\ Len(posts) = 1
  /\ posts[1].url = url
  /\ Len(LinesOf(posts[1].body)) = 2

====
